---- MODULE Spec2Model ----
(***************************************************************************)
(* Sheet-to-database synchronisation pipeline of the railway dashboard     *)
(* backend: get_google_sheet (utils.py), the three tab syncs               *)
(* (services/*_service.py), the sync_all orchestrator (api/sync_routes.py) *)
(* and the manual entity operations that share the three tables.           *)
(*                                                                         *)
(* Text is modelled as a sequence of one-character strings so that strip,  *)
(* lower-casing and pattern matching are computed, not assumed.  A cell of *)
(* the spreadsheet is a tagged value: absent (Python None), text, or a     *)
(* number (get_all_records hands numeric cells over as int/float).         *)
(***************************************************************************)
EXTENDS Integers, Sequences, FiniteSets, TLC

VARIABLES
    source,         \* the spreadsheet: tab name -> sequence of records
    db,             \* committed contents of the three tables
    pending,        \* the request's Session: merges staged and not committed
    route,          \* which request is being served
    stage,          \* the tab whose sync is running
    pc,             \* position of the request handler
    records,        \* local `records` of the running tab sync
    idx,            \* number of records the for-loop has consumed
    updated,        \* local counter `updated`
    skipped,        \* local counter `skipped`
    outcome,        \* per consumed record: "skip" or "merge"
    result,         \* what the caller of the request gets
    before,         \* committed tables when the running tab sync was called
    runStart,       \* committed tables when the running request arrived
    lastSync,       \* per tab: its table when its latest sync had returned
    log,            \* fetch / merge / commit events of the running request
    headers,        \* get_google_sheet: header row read from the worksheet
    clean_headers,  \* get_google_sheet: local list clean_headers
    seen,           \* get_google_sheet: local dict seen
    hpos,           \* get_google_sheet: number of headers consumed
    tab_name,       \* get_google_sheet: argument tab_name
    gpc,            \* get_google_sheet: position, or the exception raised
    remote,         \* number of calls made to the spreadsheet service
    input,          \* the raw cell value a parser of utils.py is applied to
    answer,         \* the parser applied and what it returned
    peer            \* a second request while the scheduler runs the first

vars == <<source, db, pending, route, stage, pc, records, idx, updated,
          skipped, outcome, result, before, runStart, lastSync,
          log, headers, clean_headers, seen, hpos, tab_name, gpc, remote,
          input, answer, peer>>

syncVars == <<source, db, pending, route, stage, pc, records, idx, updated,
              skipped, outcome, result, before, runStart, lastSync,
              log>>

headerVars == <<headers, clean_headers, seen, hpos, tab_name, gpc, remote>>

cellVars == <<input, answer>>

----------------------------------------------------------------------------
(* Bounds                                                                  *)

MaxRows == 2        \* data rows in the spreadsheet, all tabs together
MaxEarnings == 3    \* rows the earnings table grows to
MaxHeaders == 3     \* columns of a header row
MaxParts == 3       \* text fragments a raw cell value is put together from

----------------------------------------------------------------------------
(* Text and cells                                                          *)

Upper == {"A","B","C","D","E","F","G","H","I","J","K","L","M",
          "N","O","P","Q","R","S","T","U","V","W","X","Y","Z"}

Space == {" "}

NoneCell == [t |-> "none", s |-> <<>>, n |-> 0]
Str(x)   == [t |-> "str",  s |-> x,    n |-> 0]
Num(k)   == [t |-> "num",  s |-> <<>>, n |-> k]

IsStr(c) == c.t = "str"

\* Python truth value of a cell: None, "" and 0 are false
Truthy(c) ==
    CASE c.t = "none" -> FALSE
      [] c.t = "str"  -> Len(c.s) > 0
      [] c.t = "num"  -> c.n # 0

\* Python `a or b`
Or(a, b) == IF Truthy(a) THEN a ELSE b

RECURSIVE LStrip(_)
LStrip(x) == IF x # <<>> /\ Head(x) \in Space THEN LStrip(Tail(x)) ELSE x

RECURSIVE RStrip(_)
RStrip(x) ==
    IF x # <<>> /\ x[Len(x)] \in Space THEN RStrip(SubSeq(x, 1, Len(x) - 1))
    ELSE x

\* str.strip()
Strip(x) == RStrip(LStrip(x))

RECURSIVE UpperRun(_)
\* length of the run of upper-case letters at the start of x
UpperRun(x) ==
    IF x # <<>> /\ Head(x) \in Upper THEN 1 + UpperRun(Tail(x)) ELSE 0

MinCodeLen == 2
MaxCodeLen == 5

\* re.match(r"([A-Z]{2,5})", x): the greedy group, or None
MatchCode(x) ==
    LET run == UpperRun(x)
        len == IF run > MaxCodeLen THEN MaxCodeLen ELSE run
    IN  IF run >= MinCodeLen THEN Str(SubSeq(x, 1, len)) ELSE NoneCell

----------------------------------------------------------------------------
(* Value parsers (utils.py lines 60-133)                                   *)

UpperSeq == <<"A","B","C","D","E","F","G","H","I","J","K","L","M",
              "N","O","P","Q","R","S","T","U","V","W","X","Y","Z">>
LowerSeq == <<"a","b","c","d","e","f","g","h","i","j","k","l","m",
              "n","o","p","q","r","s","t","u","v","w","x","y","z">>

LowerChar(c) ==
    IF c \in Upper THEN LowerSeq[CHOOSE i \in DOMAIN UpperSeq : UpperSeq[i] = c]
    ELSE c

\* str.lower()
Lower(x) == [i \in DOMAIN x |-> LowerChar(x[i])]

DigitChars == <<"0", "1", "2", "3", "4", "5", "6", "7", "8", "9">>

Digit == {DigitChars[i] : i \in DOMAIN DigitChars}

AllDigits(x) == x # <<>> /\ \A i \in DOMAIN x : x[i] \in Digit

DigitVal(c) == (CHOOSE i \in DOMAIN DigitChars : DigitChars[i] = c) - 1

RECURSIVE ToStr(_)
\* str(n) of a natural number
ToStr(n) ==
    IF n < 10 THEN <<DigitChars[n + 1]>>
    ELSE ToStr(n \div 10) \o <<DigitChars[(n % 10) + 1]>>

RECURSIVE ToNat(_)
\* int(ds) of a text of digits
ToNat(ds) ==
    IF ds = <<>> THEN 0
    ELSE 10 * ToNat(SubSeq(ds, 1, Len(ds) - 1)) + DigitVal(ds[Len(ds)])

\* str(value) of a cell
PyStr(c) ==
    CASE c.t = "none" -> <<"N", "o", "n", "e">>
      [] c.t = "str"  -> c.s
      [] c.t = "num"  -> ToStr(c.n)

\* `sub in x` for texts
Contains(x, sub) ==
    \E i \in 1..(Len(x) - Len(sub) + 1) : SubSeq(x, i, i + Len(sub) - 1) = sub

RECURSIVE DigitRun(_)
\* length of the run of digits at the start of x
DigitRun(x) ==
    IF x # <<>> /\ Head(x) \in Digit THEN 1 + DigitRun(Tail(x)) ELSE 0

RECURSIVE Findall(_)
\* re.findall(r"\d+", x): the maximal runs of digits, left to right
Findall(x) ==
    IF x = <<>> THEN <<>>
    ELSE IF Head(x) \in Digit
         THEN <<SubSeq(x, 1, DigitRun(x))>>
                  \o Findall(SubSeq(x, DigitRun(x) + 1, Len(x)))
         ELSE Findall(Tail(x))

Max(S) == CHOOSE m \in S : \A x \in S : x <= m

Rupee == "rupee"    \* the one character U+20B9

\* re.sub(r"[<rupee>,+\s]", "", x)
DropCurrency(x) ==
    SelectSeq(x, LAMBDA c : c \notin ({Rupee, ",", "+"} \cup Space))

\* Faulty variant of KeepDigitsAndDot: a minus sign is kept
KeepDigitsDotMinus(x) == SelectSeq(x, LAMBDA c : c \in Digit \cup {".", "-"})

\* re.sub(r"[^\d.]", "", x)
KeepDigitsAndDot(x) == SelectSeq(x, LAMBDA c : c \in Digit \cup {"."})

\* The tokens normalize_number takes for "no value" (utils.py line 81)
Sentinels == {<<>>, <<"n", "/", "a">>, <<"#", "n", "/", "a">>, <<"n", "a">>,
              <<"n", "o", "n", "e">>}

\* Faulty variant of normalize_number: "no value" is returned as the empty text,
\* not as None
normalize_number_blank(value) ==
    CASE value.t = "none" -> NoneCell
      [] value.t = "num"  -> Str(ToStr(value.n))
      [] value.t = "str"  ->
           LET s    == Strip(value.s)
               nums == Findall(s)
               kept == KeepDigitsAndDot(DropCurrency(s))
           IN  IF Lower(s) \in Sentinels THEN Str(<<>>)
               ELSE IF Contains(Lower(s), <<"t", "o">>) /\ nums # <<>>
                    THEN Str(nums[Len(nums)])
               ELSE IF Contains(Lower(s), <<"u", "p", "t", "o">>) /\ nums # <<>>
                    THEN Str(nums[Len(nums)])
               ELSE Str(kept)

\* normalize_number (utils.py lines 60-105): a text of digits and dots, or
\* None
normalize_number(value) ==
    CASE value.t = "none" -> NoneCell
      [] value.t = "num"  -> Str(ToStr(value.n))
      [] value.t = "str"  ->
           LET s    == Strip(value.s)
               nums == Findall(s)
               kept == KeepDigitsAndDot(DropCurrency(s))
           IN  IF Lower(s) \in Sentinels THEN NoneCell
               ELSE IF Contains(Lower(s), <<"t", "o">>) /\ nums # <<>>
                    THEN Str(nums[Len(nums)])
               ELSE IF Contains(Lower(s), <<"u", "p", "t", "o">>) /\ nums # <<>>
                    THEN Str(nums[Len(nums)])
               ELSE IF kept = <<>> THEN NoneCell
               ELSE Str(kept)

\* A float: its integer part and the digits after the point, trailing zeros
\* dropped
Flt(whole, frac) == [whole |-> whole, frac |-> frac]

RECURSIVE DropZeros(_)
DropZeros(ds) ==
    IF ds # <<>> /\ ds[Len(ds)] = "0" THEN DropZeros(SubSeq(ds, 1, Len(ds) - 1))
    ELSE ds

Dots(x) == Cardinality({i \in DOMAIN x : x[i] = "."})

\* float(x) of a text of digits and dots succeeds when x has a digit and at
\* most one point
FloatParses(x) == Dots(x) <= 1 /\ Len(x) > Dots(x)

\* float(x) of such a text
FloatOf(x) ==
    LET w == DigitRun(x)
    IN  Flt(ToNat(SubSeq(x, 1, w)),
            DropZeros(SubSeq(x, w + 2, Len(x))))

DefaultInt == 0
DefaultFloat == Flt(0, <<>>)

\* Faulty variant of safe_int: int(n), which raises on a text with a point
safe_int_strict(value) ==
    LET n == normalize_number(value)
    IN  IF n = NoneCell THEN DefaultInt
        ELSE IF AllDigits(n.s) THEN ToNat(n.s)
        ELSE DefaultInt

\* safe_int (utils.py lines 108-115): int(float(n)), or the default when n is
\* None or float raises
safe_int(value) ==
    LET n == normalize_number(value)
    IN  IF n = NoneCell THEN DefaultInt
        ELSE IF FloatParses(n.s) THEN FloatOf(n.s).whole
        ELSE DefaultInt

\* safe_float (utils.py lines 118-125)
safe_float(value) ==
    LET n == normalize_number(value)
    IN  IF n = NoneCell THEN DefaultFloat
        ELSE IF FloatParses(n.s) THEN FloatOf(n.s)
        ELSE DefaultFloat

\* The tokens parse_bool takes for true (utils.py line 133)
Affirmative ==
    {<<"t", "r", "u", "e">>, <<"1">>, <<"y", "e", "s">>, <<"y">>,
     <<"a", "v", "a", "i", "l", "a", "b", "l", "e">>,
     <<"o", "p", "e", "r", "a", "t", "i", "o", "n", "a", "l">>}

\* Faulty variant of parse_bool: only true, 1 and yes are taken for true
parse_bool_short(value) ==
    IF value.t = "none" THEN FALSE
    ELSE Lower(Strip(PyStr(value))) \in
             {<<"t", "r", "u", "e">>, <<"1">>, <<"y", "e", "s">>}

\* parse_bool (utils.py lines 129-133)
parse_bool(value) ==
    IF value.t = "none" THEN FALSE
    ELSE Lower(Strip(PyStr(value))) \in Affirmative

\* The tokens the Earnings sync takes for true (earning_service.py line 105)
UaAffirmative == {<<"t", "r", "u", "e">>, <<"1">>, <<"y", "e", "s">>}

\* str(row.get("u/a case")).strip().lower() in ("true", "1", "yes")
UaCase(value) == Lower(Strip(PyStr(value))) \in UaAffirmative

\* The platform count parser (station_service.py lines 94-99)
PlatformCount(cell) ==
    LET raw_platforms == Or(cell, Str(<<>>))
        nums == IF IsStr(raw_platforms) THEN Findall(raw_platforms.s)
                ELSE <<>>
    IN  IF nums # <<>> THEN Max({ToNat(nums[i]) : i \in DOMAIN nums}) ELSE 0

\* The tokens parse_date takes for "no value" (utils.py line 142)
DateSentinels == {<<>>, <<"n", "/", "a">>, <<"#", "n", "/", "a">>, <<"n", "a">>}

\* Faulty variant of DateFormats: the ISO format only
DateFormatsIso == << [sep |-> "-", fields |-> <<"Y", "m", "d">>] >>

\* The formats of utils.py line 145, in the order they are tried: the
\* separator and the directives of the three fields
DateFormats ==
    << [sep |-> "-", fields |-> <<"Y", "m", "d">>],
       [sep |-> "-", fields |-> <<"d", "m", "Y">>],
       [sep |-> "/", fields |-> <<"d", "m", "Y">>],
       [sep |-> "/", fields |-> <<"Y", "m", "d">>] >>

RECURSIVE Split(_, _)
\* The parts of x between the occurrences of the character sep
Split(x, sep) ==
    IF \A i \in DOMAIN x : x[i] # sep THEN <<x>>
    ELSE LET k == CHOOSE i \in DOMAIN x :
                      x[i] = sep /\ \A j \in 1..(i - 1) : x[j] # sep
         IN  <<SubSeq(x, 1, k - 1)>> \o Split(SubSeq(x, k + 1, Len(x)), sep)

\* What strptime accepts for one directive: %Y is four digits, %m one or two
\* digits for 1..12, %d one or two digits for 1..31
FieldMatches(directive, x) ==
    /\ AllDigits(x)
    /\ CASE directive = "Y" -> Len(x) = 4
         [] directive = "m" -> Len(x) <= 2 /\ ToNat(x) \in 1..12
         [] directive = "d" -> Len(x) <= 2 /\ ToNat(x) \in 1..31

IsLeap(y) == y % 4 = 0 /\ (y % 100 # 0 \/ y % 400 = 0)

DaysIn(y, m) ==
    IF m = 2 THEN (IF IsLeap(y) THEN 29 ELSE 28)
    ELSE IF m \in {4, 6, 9, 11} THEN 30
    ELSE 31

\* A date
Date(y, m, d) == [y |-> y, m |-> m, d |-> d]

\* datetime.strptime(x, fmt).date(), or None where it raises: the text
\* does not match the format, or the fields are no date of the calendar
Strptime(x, fmt) ==
    LET parts == Split(x, fmt.sep)
        at(directive) ==
            ToNat(parts[CHOOSE i \in 1..3 : fmt.fields[i] = directive])
    IN  IF /\ Len(parts) = 3
           /\ \A i \in 1..3 : FieldMatches(fmt.fields[i], parts[i])
           /\ at("Y") >= 1
           /\ at("d") <= DaysIn(at("Y"), at("m"))
        THEN Date(at("Y"), at("m"), at("d"))
        ELSE NoneCell

RECURSIVE TryFormats(_, _)
\* The loop over the formats: the first one that parses returns
TryFormats(x, fmts) ==
    IF fmts = <<>> THEN NoneCell
    ELSE IF Strptime(x, Head(fmts)) # NoneCell THEN Strptime(x, Head(fmts))
    ELSE TryFormats(x, Tail(fmts))

\* parse_date (utils.py lines 137-152)
parse_date(value) ==
    IF value.t = "none" THEN NoneCell
    ELSE LET s == Strip(PyStr(value))
         IN  IF Lower(s) \in DateSentinels THEN NoneCell
             ELSE TryFormats(s, DateFormats)

----------------------------------------------------------------------------
(* The spreadsheet                                                         *)

TABS == <<"Stations", "Units", "Earnings">>

TabNames == {TABS[i] : i \in DOMAIN TABS}

\* Cell texts the rows below are built from
tAB     == <<"A", "B">>
tABtext == <<" ", "A", "B", " ", "j", "n">>
tLower  == <<"a", "b">>
tBlank  == <<" ">>
tU1     == <<"U", "1">>
tU1pad  == <<" ", "U", "1", " ">>
tN      == <<"N">>
tM      == <<"M">>
tZ      == <<"Z">>

\* A Stations record after the key normalisation of station_service.py line
\* 84: the cells under "station code", "station_code", "station name",
\* "station_name", one pass-through column, "division", and the platform
\* columns "platforms" and "number of platforms".
StationRow(code, legacy, name, division) ==
    [station_code_h |-> code, station_code_l |-> legacy,
     station_name_h |-> name, station_name_l |-> NoneCell,
     division |-> division,
     platforms |-> NoneCell, number_of_platforms |-> NoneCell]

\* The record with its two platform cells filled in
Platforms(row, platforms, number) ==
    [row EXCEPT !.platforms = platforms, !.number_of_platforms = number]

StationRows ==
    { Platforms(StationRow(Str(tAB),    NoneCell,    Str(tN),  Str(tN)),
                Str(<<"1", ",", " ", "2", "/", "3">>), NoneCell),
      Platforms(StationRow(Str(<<>>), Str(<<" ", "A", "B", " ">>),
                           Str(tM), Str(tM)),
                Num(7), NoneCell),
      Platforms(StationRow(Str(tLower), NoneCell,    Str(tN),  NoneCell),
                Str(<<>>), Str(<<"3">>)),
      Platforms(StationRow(Str(tBlank), NoneCell,    Str(tN),  NoneCell),
                Str(<<"7">>), NoneCell),
      StationRow(Str(<<>>),   NoneCell,    NoneCell, NoneCell),
      StationRow(Num(7),      NoneCell,    Str(tN),  NoneCell) }

\* A Units record: the cells under "unit no.", "unit_no", "station" and one
\* pass-through column, "type of unit".
UnitRow(unit, legacy, station, kind) ==
    [unit_no_h |-> unit, unit_no_l |-> legacy, station |-> station,
     type_of_unit |-> kind]

UnitRows ==
    { UnitRow(Str(tU1),    NoneCell, Str(tAB),        Str(tN)),
      UnitRow(Str(tU1pad), NoneCell, Str(tABtext),    Str(tM)),
      UnitRow(NoneCell,    Str(tU1), Str(tLower),     NoneCell),
      UnitRow(Str(tBlank), NoneCell, Num(7),          NoneCell),
      UnitRow(Num(7),      NoneCell, Str(tAB),        NoneCell),
      UnitRow(Num(0),      NoneCell, Str(tAB),        NoneCell),
      UnitRow(Str(tU1),    NoneCell, Str(<<"A", "B", "C", "D", "E", "F">>),
              NoneCell) }

\* An Earnings record: the cells under "unit no.", "unit_no", "station",
\* "u/a case", "amount" and "gst".
EarningRow(unit, legacy, station) ==
    [unit_no_h |-> unit, unit_no_l |-> legacy, station |-> station,
     ua_case |-> NoneCell, amount |-> NoneCell, gst |-> NoneCell]

\* The record with its "u/a case", "amount" and "gst" cells filled in
Money(row, ua, amount, gst) ==
    [row EXCEPT !.ua_case = ua, !.amount = amount, !.gst = gst]

EarningRows ==
    { Money(EarningRow(Str(tU1),    NoneCell, Str(tAB)),
            Str(<<"Y">>), Str(<<Rupee, "5", ",", "4", "0">>), NoneCell),
      Money(EarningRow(Str(tU1pad), NoneCell, Str(tABtext)),
            Str(<<"Y", "e", "s", " ">>), Str(<<"N", "/", "A">>),
            Str(<<".", "7", ".">>)),
      Money(EarningRow(Num(0),      Num(7),   NoneCell),
            Num(1), Num(7), Str(<<"n", "i", "l">>)),
      Money(EarningRow(Str(<<>>),   NoneCell, Str(tAB)),
            NoneCell, NoneCell, NoneCell) }

SeqsOfLen(S, k) == [1..k -> S]

\* Every spreadsheet with at most MaxRows data rows over the three tabs
Sources ==
    UNION { UNION { UNION {
        { [Stations |-> st, Units |-> un, Earnings |-> ea] :
              st \in SeqsOfLen(StationRows, a),
              un \in SeqsOfLen(UnitRows, b),
              ea \in SeqsOfLen(EarningRows, c) }
        : c \in 0..(MaxRows - a - b) }
        : b \in 0..(MaxRows - a) }
        : a \in 0..MaxRows }

----------------------------------------------------------------------------
(* Storage: the three tables and the Session of a request                  *)

EmptyTable == [k \in {} |-> NoneCell]

EmptyDb == [Stations |-> EmptyTable, Units |-> EmptyTable,
            Earnings |-> EmptyTable]

\* A Session with nothing staged
EmptySession == [Stations |-> EmptyTable, Units |-> EmptyTable,
                 Earnings |-> <<>>]

\* Columns of models.Unit that no constructor call of the sync sets and that
\* schemas.UnitCreate does not carry
UnitDefaults == [old_category |-> NoneCell]

\* The Session flushes what is pending before it loads (the autoflush flag of
\* the session factory)
Autoflush == TRUE

\* What is staged under a key that two pending instances claim: the flush of
\* the second one fails
Conflict == [conflict |-> TRUE]

\* The row a Session sees under a primary key: staged first, then committed
Visible(staged, committed, key) ==
    IF key \in DOMAIN staged THEN <<staged[key]>>
    ELSE IF key \in DOMAIN committed THEN <<committed[key]>>
    ELSE <<>>

\* Faulty variant of Merge: a sparse patch, attributes that are None on the new
\* instance do not overwrite the persistent row
MergeSparse(staged, committed, key, attrs, defaults) ==
    LET found == Visible(staged, committed, key)
        base  == IF found = <<>> THEN defaults ELSE found[1]
        row   == attrs @@ base
    IN  (key :> [f \in DOMAIN row |->
                    IF f \in DOMAIN attrs /\ f \in DOMAIN base
                       /\ attrs[f] = NoneCell
                    THEN base[f] ELSE row[f]]) @@ staged

\* Faulty variant of Merge: a key that is already staged keeps the row of the
\* first merge
MergeKeepFirst(staged, committed, key, attrs, defaults) ==
    LET found == Visible(staged, committed, key)
        base  == IF found = <<>> THEN defaults ELSE found[1]
    IN  IF key \in DOMAIN staged THEN staged
        ELSE (key :> (attrs @@ base)) @@ staged

\* Session.merge of a transient instance with primary key `key`: the
\* attributes the constructor set overwrite the persistent row found under
\* the key (or a new row); columns the constructor left out keep what the
\* persistent row has, or their default on a new row. Without autoflush a
\* pending instance of a new key is not found by a later merge of the key,
\* which adds a second instance.
Merge(staged, committed, key, attrs, defaults) ==
    LET found == Visible(staged, committed, key)
        base  == IF found = <<>> THEN defaults ELSE found[1]
    IN  IF ~Autoflush /\ key \in DOMAIN staged /\ key \notin DOMAIN committed
        THEN (key :> Conflict) @@ staged
        ELSE (key :> (attrs @@ base)) @@ staged

\* Faulty variant of MergeNew: the Session keeps one keyless instance, a later
\* merge takes its place
MergeNewReplace(stagedSeq, attrs) == <<attrs>>

\* Session.merge of an instance whose primary key is None (models.Earning,
\* earning_id autoincrement): nothing to look up, a new instance is added
MergeNew(stagedSeq, attrs) == Append(stagedSeq, attrs)

\* The next value of the autoincrement key earning_id
NextEarningId(tbl) == IF DOMAIN tbl = {} THEN 1 ELSE Max(DOMAIN tbl) + 1

\* Faulty variant of CommitSession: the tables are replaced by what the
\* Session staged
CommitSessionReplace(committed, staged) ==
    LET base == NextEarningId(committed.Earnings)
        new  == [i \in base..(base + Len(staged.Earnings) - 1) |->
                     [staged.Earnings[i - base + 1]
                          EXCEPT !.earning_id = i]]
    IN  [Stations |-> staged.Stations,
         Units    |-> staged.Units,
         Earnings |-> new @@ committed.Earnings]

\* db.commit(): staged rows replace or extend the committed tables, staged
\* Earnings get fresh ids in the order they were added
CommitSession(committed, staged) ==
    LET base == NextEarningId(committed.Earnings)
        new  == [i \in base..(base + Len(staged.Earnings) - 1) |->
                     [staged.Earnings[i - base + 1]
                          EXCEPT !.earning_id = i]]
    IN  [Stations |-> staged.Stations @@ committed.Stations,
         Units    |-> staged.Units @@ committed.Units,
         Earnings |-> new @@ committed.Earnings]

----------------------------------------------------------------------------
(* Entity mappers: the body of the for-loop of each tab sync               *)

Skip == [kind |-> "skip"]
Raise == [kind |-> "raise"]
Entity(key, attrs) == [kind |-> "entity", key |-> key, attrs |-> attrs]

\* station_service.py lines 86-124
MapStation(row) ==
    LET station_code == Or(row.station_code_h, row.station_code_l)
        station_name == Or(row.station_name_h, row.station_name_l)
    IN  IF ~Truthy(station_code) \/ ~Truthy(station_name) THEN Skip
        ELSE IF ~IsStr(station_code) \/ ~IsStr(station_name) THEN Raise
        ELSE Entity(Strip(station_code.s),
                    [station_code   |-> Strip(station_code.s),
                     station_name   |-> Strip(station_name.s),
                     division       |-> row.division,
                     platforms      |-> Or(row.platforms, Str(<<>>)),
                     platform_count |-> Num(PlatformCount(row.platforms))])

\* unit_service.py lines 89-94: the station code cleaning
CleanStationCode(cell) ==
    LET raw_station == Or(cell, Str(<<>>))
    IN  IF IsStr(raw_station) THEN MatchCode(Strip(raw_station.s))
        ELSE NoneCell

\* unit_service.py lines 84-119
MapUnit(row) ==
    LET unit_no == Or(row.unit_no_h, row.unit_no_l)
    IN  IF ~Truthy(unit_no) THEN Skip
        ELSE IF ~IsStr(unit_no) THEN Raise
        ELSE Entity(Strip(unit_no.s),
                    [unit_no      |-> Strip(unit_no.s),
                     type_of_unit |-> row.type_of_unit,
                     station_code |-> CleanStationCode(row.station)])

\* Faulty variant of MapEarning: a row without an amount is skipped
MapEarningStrict(row) ==
    LET unit_no == Or(row.unit_no_h, row.unit_no_l)
    IN  IF ~Truthy(unit_no) \/ normalize_number(row.amount) = NoneCell
        THEN Skip
        ELSE Entity(NoneCell,
                    [earning_id   |-> 0,
                     unit_no      |-> unit_no,
                     station_code |-> row.station,
                     amount       |-> safe_float(row.amount),
                     gst          |-> safe_float(row.gst),
                     ua_case      |-> UaCase(row.ua_case)])

\* earning_service.py lines 86-107
MapEarning(row) ==
    LET unit_no == Or(row.unit_no_h, row.unit_no_l)
    IN  IF ~Truthy(unit_no) THEN Skip
        ELSE Entity(NoneCell,
                    [earning_id   |-> 0,
                     unit_no      |-> unit_no,
                     station_code |-> row.station,
                     amount       |-> safe_float(row.amount),
                     gst          |-> safe_float(row.gst),
                     ua_case      |-> UaCase(row.ua_case)])

\* What the loop body of each tab sync makes of each kind of row
Mapped ==
    [Stations |-> [row \in StationRows |-> MapStation(row)],
     Units    |-> [row \in UnitRows |-> MapUnit(row)],
     Earnings |-> [row \in EarningRows |-> MapEarning(row)]]

MapRow(tab, row) == Mapped[tab][row]

----------------------------------------------------------------------------
(* Requests                                                                *)

\* Faulty variant of SyncAllOrder: Units is synced before Stations
UnitsFirstOrder == <<"Units", "Stations", "Earnings">>

\* sync_all calls the three tab syncs in this order (sync_routes.py 21-25)
SyncAllOrder == <<"Stations", "Units", "Earnings">>

Routes == {"all"} \cup TabNames

\* The tab syncs a request runs, in order: POST /sync/all, or one of
\* POST /stations/sync, /units/sync, /earnings/sync
Stages(r) == IF r = "all" THEN SyncAllOrder ELSE <<r>>

CurTab == Stages(route)[stage]

NoResult == [status |-> "none", kind |-> "none", tab |-> "none"]
Ok == [status |-> "ok", kind |-> "none", tab |-> "none"]
Error(kind, tab) == [status |-> "error", kind |-> kind, tab |-> tab]

Event(ev, tab) == [ev |-> ev, tab |-> tab]

ErrorKinds == {"fetch", "row", "storage"}

\* What the HTTP caller of a sync route receives: the dict the handler
\* returns, or the server-error response when an exception left the handler
\* (no handler catches, no exception handler is registered)
HttpResponse(res) ==
    IF res.status = "ok"
    THEN [code |-> 200, detail |-> "synced successfully"]
    ELSE [code |-> 500, detail |-> "Internal Server Error"]

\* What a tab sync returns to the handler: the function ends after the log
\* line, without a return statement
SyncReturn(updated_count, skipped_count) == NoneCell

\* lastSync of a tab that was not synced since its table was last edited
NoSync == [has |-> FALSE, tbl |-> EmptyTable]

\* lastSync of a tab whose latest completed sync left `tbl`
Synced(tbl) == [has |-> TRUE, tbl |-> tbl]

\* Faulty variant of Propagate: the handler catches the exception of a tab sync and
\* goes on with the next one
PropagateSwallowed(kind) ==
    /\ pc' = "returned"
    /\ result' = result
    /\ log' = Append(log, Event("raise", CurTab))

\* An exception raised inside a tab sync: neither the tab sync nor sync_all
\* catches it, so it leaves the handler and is what the caller gets
Propagate(kind) ==
    /\ pc' = "failed"
    /\ result' = Error(kind, CurTab)
    /\ log' = Append(log, Event("raise", CurTab))

\* Faulty variant of CommittedAfterMerge: every merge is committed at once
CommittedEachMerge(committed, staged) == CommitSession(committed, staged)

\* The committed tables after db.merge inside the loop: the merge stays in
\* the open transaction, db.commit() is called once, after the loop
CommittedAfterMerge(committed, staged) == committed

\* A sync request arrives and gets a Session of its own (Depends(get_db)).
\* The Earnings table grows with every run: a run starts only while the
\* table still has room and holds no more rows than the sheet.
BeginSync(r) ==
    /\ pc = "idle"
    /\ r \in {"all", "Earnings"} =>
           /\ Cardinality(DOMAIN db.Earnings) + Len(source.Earnings)
                  <= MaxEarnings
           /\ Cardinality(DOMAIN db.Earnings) <= Len(source.Earnings)
    /\ route' = r
    /\ stage' = 1
    /\ pc' = "fetch"
    /\ pending' = EmptySession
    /\ before' = db
    /\ runStart' = db
    /\ log' = <<>>
    /\ result' = NoResult
    /\ UNCHANGED <<source, db, records, idx, updated, skipped, outcome,
                   lastSync>>
    /\ UNCHANGED <<headerVars, cellVars, peer>>

\* records = get_google_sheet(sheet_id, tab) returns the rows of the tab
GetGoogleSheet ==
    /\ pc = "fetch"
    /\ records' = source[CurTab]
    /\ idx' = 0
    /\ updated' = 0
    /\ skipped' = 0
    /\ outcome' = <<>>
    /\ log' = Append(log, Event("fetch", CurTab))
    /\ pc' = "rows"
    /\ UNCHANGED <<source, db, pending, route, stage, result, before,
                   runStart, lastSync>>
    /\ UNCHANGED <<headerVars, cellVars, peer>>

\* get_google_sheet raises (authentication, worksheet not found, transport)
GetGoogleSheetFails ==
    /\ pc = "fetch"
    /\ Propagate("fetch")
    /\ UNCHANGED <<source, db, pending, route, stage, records, idx, updated,
                   skipped, outcome, before, runStart, lastSync>>
    /\ UNCHANGED <<headerVars, cellVars, peer>>

\* One iteration of the for-loop: skip the record, merge its entity into the
\* Session, or leave the loop with the exception the row raised
SyncRow ==
    /\ pc = "rows"
    /\ idx < Len(records)
    /\ LET m == MapRow(CurTab, records[idx + 1])
       IN  CASE m.kind = "skip" ->
                  /\ skipped' = skipped + 1
                  /\ idx' = idx + 1
                  /\ outcome' = Append(outcome, "skip")
                  /\ UNCHANGED <<db, pending, updated, pc, result, log>>
             [] m.kind = "raise" ->
                  /\ Propagate("row")
                  /\ UNCHANGED <<db, pending, updated, skipped, idx, outcome>>
             [] m.kind = "entity" ->
                  /\ pending' =
                       CASE CurTab = "Stations" ->
                              [pending EXCEPT !.Stations =
                                  Merge(@, db.Stations, m.key, m.attrs,
                                        EmptyTable)]
                         [] CurTab = "Units" ->
                              [pending EXCEPT !.Units =
                                  Merge(@, db.Units, m.key, m.attrs,
                                        UnitDefaults)]
                         [] CurTab = "Earnings" ->
                              [pending EXCEPT !.Earnings =
                                  MergeNew(@, m.attrs)]
                  /\ db' = CommittedAfterMerge(db, pending')
                  /\ updated' = updated + 1
                  /\ idx' = idx + 1
                  /\ outcome' = Append(outcome, "merge")
                  /\ log' = Append(log, Event("merge", CurTab))
                  /\ UNCHANGED <<pc, result, skipped>>
    /\ UNCHANGED <<source, route, stage, records, before, runStart, lastSync>>
    /\ UNCHANGED <<headerVars, cellVars, peer>>

\* db.merge raises while it reads or flushes (storage failure)
MergeFails ==
    /\ pc = "rows"
    /\ idx < Len(records)
    /\ MapRow(CurTab, records[idx + 1]).kind = "entity"
    /\ Propagate("storage")
    /\ UNCHANGED <<source, db, pending, route, stage, records, idx, updated,
                   skipped, outcome, before, runStart, lastSync>>
    /\ UNCHANGED <<headerVars, cellVars, peer>>

\* db.commit() after the loop, then the tab sync returns
Commit ==
    /\ pc = "rows"
    /\ idx = Len(records)
    /\ \A tb \in {"Stations", "Units"} :
           \A k \in DOMAIN pending[tb] : pending[tb][k] # Conflict
    /\ db' = CommitSession(db, pending)
    /\ pending' = EmptySession
    /\ log' = Append(log, Event("commit", CurTab))
    /\ pc' = "returned"
    /\ UNCHANGED <<source, route, stage, records, idx, updated, skipped,
                   outcome, result, before, runStart, lastSync>>
    /\ UNCHANGED <<headerVars, cellVars, peer>>

\* db.commit() raises: the transaction is rolled back
CommitFails ==
    /\ pc = "rows"
    /\ idx = Len(records)
    /\ Propagate("storage")
    /\ pending' = EmptySession
    /\ UNCHANGED <<source, db, route, stage, records, idx, updated, skipped,
                   outcome, before, runStart, lastSync>>
    /\ UNCHANGED <<headerVars, cellVars, peer>>

\* The handler goes on after a tab sync returned: the next tab sync is
\* called, or the success response is built
Continue ==
    /\ pc = "returned"
    /\ lastSync' = [lastSync EXCEPT ![CurTab] = Synced(db[CurTab])]
    /\ IF stage < Len(Stages(route))
       THEN /\ stage' = stage + 1
            /\ pc' = "fetch"
            /\ before' = db
            /\ UNCHANGED result
       ELSE /\ pc' = "done"
            /\ result' = Ok
            /\ UNCHANGED <<stage, before>>
    /\ UNCHANGED <<source, db, pending, route, records, idx, updated,
                   skipped, outcome, runStart, log>>
    /\ UNCHANGED <<headerVars, cellVars, peer>>

\* The response (or the error) reaches the caller and the Session is closed
Respond ==
    /\ pc \in {"done", "failed"}
    /\ pc' = "idle"
    /\ pending' = EmptySession
    /\ records' = <<>>
    /\ idx' = 0
    /\ updated' = 0
    /\ skipped' = 0
    /\ outcome' = <<>>
    /\ log' = <<>>
    /\ stage' = 1
    /\ route' = "all"
    /\ result' = NoResult
    /\ before' = db
    /\ runStart' = db
    /\ UNCHANGED <<source, db, lastSync>>
    /\ UNCHANGED <<headerVars, cellVars, peer>>

----------------------------------------------------------------------------
(* Manual entity operations                                                *)

\* Request bodies of the manual updates
StationBodies ==
    {[station_name |-> tZ, division |-> Str(tZ),
      platforms |-> NoneCell, platform_count |-> NoneCell]}
UnitBodies == {[type_of_unit |-> Str(tZ), station_code |-> Str(tAB)]}

\* StationService.update_station: every field of the body is set on the row
\* found under the code; the body carries the code of the path
UpdateStation(code, body) ==
    /\ pc = "idle"
    /\ code \in DOMAIN db.Stations
    /\ db' = [db EXCEPT !.Stations[code] =
                 [station_code   |-> code,
                  station_name   |-> body.station_name,
                  division       |-> body.division,
                  platforms      |-> body.platforms,
                  platform_count |-> body.platform_count]]
    /\ lastSync' = [lastSync EXCEPT !.Stations = NoSync]
    /\ before' = db'
    /\ runStart' = db'
    /\ UNCHANGED <<source, pending, route, stage, pc, records, idx, updated,
                   skipped, outcome, result, log>>
    /\ UNCHANGED <<headerVars, cellVars, peer>>

\* UnitService.update_unit: every field of schemas.UnitCreate is set on the
\* row found under the unit number; the body carries the number of the path
UpdateUnit(no, body) ==
    /\ pc = "idle"
    /\ no \in DOMAIN db.Units
    /\ db' = [db EXCEPT !.Units[no] =
                 [@ EXCEPT !.type_of_unit = body.type_of_unit,
                           !.station_code = body.station_code]]
    /\ lastSync' = [lastSync EXCEPT !.Units = NoSync]
    /\ before' = db'
    /\ runStart' = db'
    /\ UNCHANGED <<source, pending, route, stage, pc, records, idx, updated,
                   skipped, outcome, result, log>>
    /\ UNCHANGED <<headerVars, cellVars, peer>>

----------------------------------------------------------------------------
(* The specification of the pipeline                                       *)

\* No second request: its handler has not been entered
NoPeer ==
    [run   |-> [pending |-> EmptySession, route |-> "all", stage |-> 1,
                pc |-> "idle", records |-> <<>>, idx |-> 0, updated |-> 0,
                skipped |-> 0, outcome |-> <<>>, result |-> NoResult,
                before |-> EmptyDb, runStart |-> EmptyDb, log |-> <<>>],
     keys  |-> [Stations |-> {}, Units |-> {}],
     stale |-> FALSE,
     mine  |-> FALSE]

HeadersIdle ==
    /\ headers = <<>>
    /\ clean_headers = <<>>
    /\ seen = EmptyTable
    /\ hpos = 0
    /\ tab_name = "Stations"
    /\ gpc = "idle"
    /\ remote = 0

NoAnswer == [fn |-> "none", out |-> NoneCell]

CellsIdle ==
    /\ input = NoneCell
    /\ answer = NoAnswer

Init ==
    /\ source \in Sources
    /\ db = EmptyDb
    /\ pending = EmptySession
    /\ route = "all"
    /\ stage = 1
    /\ pc = "idle"
    /\ records = <<>>
    /\ idx = 0
    /\ updated = 0
    /\ skipped = 0
    /\ outcome = <<>>
    /\ result = NoResult
    /\ before = EmptyDb
    /\ runStart = EmptyDb
    /\ lastSync = [tb \in TabNames |-> NoSync]
    /\ log = <<>>
    /\ peer = NoPeer
    /\ HeadersIdle
    /\ CellsIdle

Next ==
    \/ \E r \in Routes : BeginSync(r)
    \/ GetGoogleSheet
    \/ GetGoogleSheetFails
    \/ SyncRow
    \/ MergeFails
    \/ Commit
    \/ CommitFails
    \/ Continue
    \/ Respond
    \/ \E code \in DOMAIN db.Stations, body \in StationBodies :
           UpdateStation(code, body)
    \/ \E no \in DOMAIN db.Units, body \in UnitBodies : UpdateUnit(no, body)

Spec == Init /\ [][Next]_vars

----------------------------------------------------------------------------
(* get_google_sheet: the header row (utils.py lines 40-53)                 *)

\* Header texts a worksheet's first row is drawn from
HeaderTexts ==
    { <<"N", "a", "m", "e">>, <<"N", "a", "m", "e", "_", "2">>,
      <<" ", "N", "a", "m", "e">>, <<"U">> }

\* f"{h}_{seen[h]}"
Renamed(h, k) == h \o <<"_">> \o ToStr(k)

\* Tab names get_google_sheet is called with
FetchTabs == TabNames \cup {"Sheet1", "stations"}

\* Faulty variant of UnknownTab: the tab name is not checked
UnknownTabUnchecked(t) == FALSE

\* tab_name not in TABS
UnknownTab(t) == t \notin TabNames

\* The guard of get_google_sheet (utils.py lines 30-31): ValueError for a
\* tab name that is not in TABS, before the credentials are built
CheckTab ==
    /\ gpc = "check"
    /\ gpc' = IF UnknownTab(tab_name) THEN "ValueError" ELSE "open"
    /\ UNCHANGED <<headers, clean_headers, seen, hpos, tab_name, remote>>
    /\ UNCHANGED <<syncVars, cellVars, peer>>

\* client.open_by_key(sheet_id).worksheet(tab_name)
OpenWorksheet ==
    /\ gpc = "open"
    /\ remote' = remote + 1
    /\ gpc' = "headers"
    /\ UNCHANGED <<headers, clean_headers, seen, hpos, tab_name>>
    /\ UNCHANGED <<syncVars, cellVars, peer>>

\* headers = ws.row_values(1): whatever the first row of the worksheet is
RowValues ==
    /\ gpc = "headers"
    /\ headers' \in UNION {SeqsOfLen(HeaderTexts, k) : k \in 0..MaxHeaders}
    /\ remote' = remote + 1
    /\ gpc' = "loop"
    /\ UNCHANGED <<clean_headers, seen, hpos, tab_name>>
    /\ UNCHANGED <<syncVars, cellVars, peer>>

\* A call to the spreadsheet service raises (authentication, worksheet not
\* found, transport)
RemoteFails ==
    /\ gpc \in {"open", "headers"} \/ (gpc = "loop" /\ hpos = Len(headers))
    /\ remote' = remote + 1
    /\ gpc' = "APIError"
    /\ UNCHANGED <<headers, clean_headers, seen, hpos, tab_name>>
    /\ UNCHANGED <<syncVars, cellVars, peer>>

\* One iteration of `for h in headers`
HeaderStep ==
    /\ gpc = "loop"
    /\ hpos < Len(headers)
    /\ LET h == Strip(headers[hpos + 1])
       IN  IF h \in DOMAIN seen
           THEN /\ seen' = [seen EXCEPT ![h] = @ + 1]
                /\ clean_headers' = Append(clean_headers, Renamed(h, seen[h] + 1))
           ELSE /\ seen' = (h :> 1) @@ seen
                /\ clean_headers' = Append(clean_headers, h)
    /\ hpos' = hpos + 1
    /\ UNCHANGED <<headers, tab_name, gpc, remote>>
    /\ UNCHANGED <<syncVars, cellVars, peer>>

\* records = ws.get_all_records(expected_headers=clean_headers); return
GetAllRecords ==
    /\ gpc = "loop"
    /\ hpos = Len(headers)
    /\ remote' = remote + 1
    /\ gpc' = "returned"
    /\ UNCHANGED <<headers, clean_headers, seen, hpos, tab_name>>
    /\ UNCHANGED <<syncVars, cellVars, peer>>

SyncIdle ==
    /\ source = [Stations |-> <<>>, Units |-> <<>>, Earnings |-> <<>>]
    /\ db = EmptyDb
    /\ pending = EmptySession
    /\ route = "all"
    /\ stage = 1
    /\ pc = "idle"
    /\ records = <<>>
    /\ idx = 0
    /\ updated = 0
    /\ skipped = 0
    /\ outcome = <<>>
    /\ result = NoResult
    /\ before = EmptyDb
    /\ runStart = EmptyDb
    /\ lastSync = [tb \in TabNames |-> NoSync]
    /\ log = <<>>
    /\ peer = NoPeer

\* get_google_sheet is called with a tab name
InitHeaders ==
    /\ tab_name \in FetchTabs
    /\ gpc = "check"
    /\ remote = 0
    /\ headers = <<>>
    /\ clean_headers = <<>>
    /\ seen = EmptyTable
    /\ hpos = 0
    /\ SyncIdle
    /\ CellsIdle

NextHeaders ==
    \/ CheckTab
    \/ OpenWorksheet
    \/ RowValues
    \/ RemoteFails
    \/ HeaderStep
    \/ GetAllRecords

SpecHeaders == InitHeaders /\ [][NextHeaders]_vars

----------------------------------------------------------------------------
(* The value parsers applied to raw cell values                            *)

\* Text fragments raw cell values are put together from
Pieces ==
    { <<" ">>,
      <<"N", "/", "A">>,
      <<"#", "N", "/", "A">>,
      <<"n", "A">>,
      <<"N", "o", "n", "e">>,
      <<"0", "5">>,
      <<"t", "o">>,
      <<"5", "0", "L", "a", "k", "h", "s">>,
      <<"u", "p", "t", "o">>,
      <<"0", "1", "L", "a", "k", "h", "s">>,
      <<"1", ",", " ">>,
      <<"2", "/", "3">>,
      <<"-", "7">>,
      <<".">>,
      <<Rupee, "5", ",", "4", "+">> }

RECURSIVE Concat(_)
Concat(ps) == IF ps = <<>> THEN <<>> ELSE Head(ps) \o Concat(Tail(ps))

\* Every text of at most MaxParts fragments
CellTexts == {Concat(ps) : ps \in UNION {SeqsOfLen(Pieces, k) : k \in 0..MaxParts}}

\* Texts the docstrings and the affirmative tokens name
Examples ==
    { <<Rupee, "1", ",", "2", "3", ",", "4", "5", "6">>,
      <<"3", ",", "5", "0", ",", "0", "0", "0", "+">>,
      <<"1", "2", ".", "7">>,
      <<"Y">>,
      <<"Y", "e", "s">>,
      <<" ", "y", "e", "s", " ">>,
      <<"y", "e", "s", "s">>,
      <<"T", "R", "U", "E">>,
      <<"1">>,
      <<"A", "v", "a", "i", "l", "a", "b", "l", "e">>,
      <<"o", "p", "e", "r", "a", "t", "i", "o", "n", "a", "l">>,
      <<"n", "o">>,
      <<"g", "a", "r", "b", "a", "g", "e">> }

\* Texts of three fields and two separators, at most one of the fields a year
DateTexts ==
    LET fields ==
            { <<"2", "0", "2", "4">>, <<"2", "0", "2", "3">>,
              <<"0", "0", "0", "0">>, <<"1", "5">>, <<"0", "3">>, <<"2">>,
              <<"2", "9">>, <<"3", "1">>, <<"1", "3">>, <<"0", "0">> }
        seps == {<<"-">>, <<"/">>}
    IN  { f[1] \o s1 \o f[2] \o s2 \o f[3] :
              f \in {g \in SeqsOfLen(fields, 3) :
                         Cardinality({i \in 1..3 : Len(g[i]) = 4}) <= 1},
              s1 \in seps, s2 \in seps }

\* Raw values of a cell: None, a number, or text
CellValues ==
    {NoneCell, Num(0), Num(1), Num(7)}
        \cup {Str(x) : x \in CellTexts \cup Examples \cup DateTexts}

Answer(fn, out) == [fn |-> fn, out |-> out]

NormalizeNumber ==
    /\ answer = NoAnswer
    /\ answer' = Answer("normalize_number", normalize_number(input))
    /\ UNCHANGED <<input, syncVars, headerVars, peer>>

SafeInt ==
    /\ answer = NoAnswer
    /\ answer' = Answer("safe_int", safe_int(input))
    /\ UNCHANGED <<input, syncVars, headerVars, peer>>

SafeFloat ==
    /\ answer = NoAnswer
    /\ answer' = Answer("safe_float", safe_float(input))
    /\ UNCHANGED <<input, syncVars, headerVars, peer>>

ParseBool ==
    /\ answer = NoAnswer
    /\ answer' = Answer("parse_bool", parse_bool(input))
    /\ UNCHANGED <<input, syncVars, headerVars, peer>>

ParseDate ==
    /\ answer = NoAnswer
    /\ answer' = Answer("parse_date", parse_date(input))
    /\ UNCHANGED <<input, syncVars, headerVars, peer>>

InitCells ==
    /\ input \in CellValues
    /\ answer = NoAnswer
    /\ SyncIdle
    /\ HeadersIdle

NextCells ==
    \/ NormalizeNumber
    \/ SafeInt
    \/ SafeFloat
    \/ ParseBool
    \/ ParseDate

SpecCells == InitCells /\ [][NextCells]_vars

----------------------------------------------------------------------------
(* Entity creation and deletion (the CRUD methods of the services)         *)

StationCodes == {tAB, tLower}
UnitNos == {tU1, tN}

Restrict(tbl, keys) == [k \in keys |-> tbl[k]]

\* Units whose station_code names station `code` (Station.units)
UnitsOf(tables, code) ==
    {u \in DOMAIN tables.Units : tables.Units[u].station_code = Str(code)}

\* Earnings whose station_code names station `code` (Station.earnings)
EarningsOfStation(tables, code) ==
    {e \in DOMAIN tables.Earnings :
        tables.Earnings[e].station_code = Str(code)}

\* Earnings whose unit_no names one of `units` (Unit.earnings)
EarningsOfUnits(tables, units) ==
    {e \in DOMAIN tables.Earnings :
        \E u \in units : tables.Earnings[e].unit_no = Str(u)}

\* Faulty variant of DeleteCascade: the relationship Unit.earnings does not
\* cascade the delete
DeleteCascadeShallow(tables, code) ==
    LET units    == UnitsOf(tables, code)
        earnings == EarningsOfStation(tables, code)
    IN  [Stations |-> Restrict(tables.Stations,
                               DOMAIN tables.Stations \ {code}),
         Units    |-> Restrict(tables.Units, DOMAIN tables.Units \ units),
         Earnings |-> Restrict(tables.Earnings,
                               DOMAIN tables.Earnings \ earnings)]

\* db.delete(db_station) and the flush: the delete cascades along
\* Station.units and Station.earnings, and from each deleted Unit along
\* Unit.earnings (cascade="all, delete", models.py lines 29, 30, 50)
DeleteCascade(tables, code) ==
    LET units    == UnitsOf(tables, code)
        earnings == EarningsOfStation(tables, code)
                        \cup EarningsOfUnits(tables, units)
    IN  [Stations |-> Restrict(tables.Stations,
                               DOMAIN tables.Stations \ {code}),
         Units    |-> Restrict(tables.Units, DOMAIN tables.Units \ units),
         Earnings |-> Restrict(tables.Earnings,
                               DOMAIN tables.Earnings \ earnings)]

\* The variables the entity operations leave alone
crudFrame == <<source, pending, route, stage, pc, records, idx, updated,
               skipped, outcome, result, runStart, lastSync>>

\* StationService.create_station
CreateStation(code) ==
    /\ pc = "idle"
    /\ code \notin DOMAIN db.Stations
    /\ db' = [db EXCEPT !.Stations =
                 (code :> [station_code   |-> code,
                           station_name   |-> tN,
                           division       |-> NoneCell,
                           platforms      |-> NoneCell,
                           platform_count |-> NoneCell]) @@ @]
    /\ before' = db'
    /\ log' = <<>>
    /\ UNCHANGED <<crudFrame, headerVars, cellVars, peer>>

\* UnitService.create_unit
CreateUnit(no, station_code) ==
    /\ pc = "idle"
    /\ no \notin DOMAIN db.Units
    /\ db' = [db EXCEPT !.Units =
                 (no :> [unit_no      |-> no,
                         type_of_unit |-> NoneCell,
                         station_code |-> station_code,
                         old_category |-> NoneCell]) @@ @]
    /\ before' = db'
    /\ log' = <<>>
    /\ UNCHANGED <<crudFrame, headerVars, cellVars, peer>>

\* EarningService.create_earning
CreateEarning(unit_no, station_code) ==
    /\ pc = "idle"
    /\ NextEarningId(db.Earnings) <= MaxEarnings
    /\ db' = [db EXCEPT !.Earnings =
                 (NextEarningId(db.Earnings) :>
                     [earning_id   |-> NextEarningId(db.Earnings),
                      unit_no      |-> Str(unit_no),
                      station_code |-> Str(station_code),
                      amount       |-> DefaultFloat,
                      gst          |-> DefaultFloat,
                      ua_case      |-> FALSE]) @@ @]
    /\ before' = db'
    /\ log' = <<>>
    /\ UNCHANGED <<crudFrame, headerVars, cellVars, peer>>

\* StationService.delete_station: 404 when the code is not stored, else the
\* delete with its cascades, and the commit
DeleteStation(code) ==
    /\ pc = "idle"
    /\ code \in DOMAIN db.Stations
    /\ db' = DeleteCascade(db, code)
    /\ before' = db
    /\ log' = <<Event("delete_station", code)>>
    /\ UNCHANGED <<crudFrame, headerVars, cellVars, peer>>

InitCrud ==
    /\ SyncIdle
    /\ HeadersIdle
    /\ CellsIdle

NextCrud ==
    \/ \E code \in StationCodes : CreateStation(code)
    \/ \E no \in UnitNos, sc \in {Str(c) : c \in StationCodes} \cup {NoneCell} :
           CreateUnit(no, sc)
    \/ \E no \in UnitNos, code \in StationCodes : CreateEarning(no, code)
    \/ \E code \in StationCodes : DeleteStation(code)

SpecCrud == InitCrud /\ [][NextCrud]_vars

----------------------------------------------------------------------------
(* Get, update and delete by key (the CRUD methods of the services)        *)

\* The keys requests name: stored ones and others
LookupKeys(tab) ==
    CASE tab = "Stations" -> StationCodes
      [] tab = "Units"    -> UnitNos
      [] tab = "Earnings" -> 1..(MaxEarnings + 1)

\* Faulty variant of Found: the row is not tested before it is used
FoundAlways(tables, tab, key) == TRUE

\* get_station, get_unit, get_earning: query(...).filter(key == k).first()
\* has found a row (`if not station: raise HTTPException(404)`)
Found(tables, tab, key) == key \in DOMAIN tables[tab]

\* db.delete(row) and the flush, with the cascades of the relationships
DeleteRow(tables, tab, key) ==
    CASE tab = "Stations" -> DeleteCascade(tables, key)
      [] tab = "Units"    ->
           [tables EXCEPT
               !.Units = Restrict(@, DOMAIN @ \ {key}),
               !.Earnings =
                   Restrict(@, DOMAIN @ \ EarningsOfUnits(tables, {key}))]
      [] tab = "Earnings" ->
           [tables EXCEPT !.Earnings = Restrict(@, DOMAIN @ \ {key})]

\* get_station, get_unit, get_earning: the row is returned (200), or the
\* HTTPException ends the request (404)
Get(tab, key) ==
    /\ pc = "idle"
    /\ log' = <<[ev |-> "get", tab |-> tab, key |-> key,
                 code |-> IF Found(db, tab, key) THEN 200 ELSE 404]>>
    /\ before' = db
    /\ UNCHANGED <<db, crudFrame, headerVars, cellVars, peer>>

\* update_station, update_unit, update_earning: the row is fetched with the
\* get of the service, every field of the body (schemas.StationCreate,
\* UnitCreate, EarningCreate) is set on it, commit
Update(tab, key) ==
    /\ pc = "idle"
    /\ LET body ==
               CASE tab = "Stations" ->
                      [station_name |-> tZ, division |-> Str(tZ),
                       platforms |-> NoneCell, platform_count |-> NoneCell]
                 [] tab = "Units" ->
                      [type_of_unit |-> Str(tZ), station_code |-> Str(tAB)]
                 [] tab = "Earnings" ->
                      [unit_no |-> Str(tU1), station_code |-> Str(tAB),
                       amount |-> Flt(7, <<>>), gst |-> DefaultFloat,
                       ua_case |-> TRUE]
       IN  IF Found(db, tab, key)
           THEN /\ db' = [db EXCEPT ![tab][key] = body @@ @]
                /\ log' = <<[ev |-> "update", tab |-> tab, key |-> key,
                             code |-> 200]>>
           ELSE /\ db' = db
                /\ log' = <<[ev |-> "update", tab |-> tab, key |-> key,
                             code |-> 404]>>
    /\ before' = db
    /\ UNCHANGED <<crudFrame, headerVars, cellVars, peer>>

\* delete_station, delete_unit, delete_earning: the row is fetched with the
\* get of the service, db.delete, commit
Delete(tab, key) ==
    /\ pc = "idle"
    /\ IF Found(db, tab, key)
       THEN /\ db' = DeleteRow(db, tab, key)
            /\ log' = <<[ev |-> "delete", tab |-> tab, key |-> key,
                         code |-> 200]>>
       ELSE /\ db' = db
            /\ log' = <<[ev |-> "delete", tab |-> tab, key |-> key,
                         code |-> 404]>>
    /\ before' = db
    /\ UNCHANGED <<crudFrame, headerVars, cellVars, peer>>

NextLookups ==
    \/ CreateStation(tAB)
    \/ CreateUnit(tU1, Str(tAB))
    \/ CreateEarning(tU1, tAB)
    \/ \E tab \in TabNames : \E key \in LookupKeys(tab) : Get(tab, key)
    \/ \E tab \in TabNames : \E key \in LookupKeys(tab) : Update(tab, key)
    \/ \E tab \in TabNames : \E key \in LookupKeys(tab) : Delete(tab, key)

SpecLookups == InitCrud /\ [][NextLookups]_vars

----------------------------------------------------------------------------
(* Two sync_all requests served at the same time                           *)

\* Faulty variant of OwnSession: one Session serves every request
SharedSession(saved, current) == current

\* db: Session = Depends(get_db): every request has a Session of its own
OwnSession(saved, current) == saved

\* The scheduler suspends the running request and resumes the other one.
\* The tables are shared and a request sees what is committed. A Session
\* that staged the INSERT of a key committed by the other request since is
\* stale: its next flush raises (the primary key exists).
Switch ==
    LET collides ==
            \E tb \in {"Stations", "Units"} :
                \E k \in DOMAIN peer.run.pending[tb] :
                    k \in DOMAIN db[tb] /\ k \notin peer.keys[tb]
        running ==
            [pending |-> pending, route |-> route, stage |-> stage,
             pc |-> pc, records |-> records, idx |-> idx,
             updated |-> updated, skipped |-> skipped,
             outcome |-> outcome, result |-> result, before |-> before,
             runStart |-> runStart, log |-> log]
    IN  /\ peer' = [run   |-> running,
                    keys  |-> [tb \in {"Stations", "Units"} |->
                                  DOMAIN db[tb]],
                    stale |-> peer.mine,
                    mine  |-> peer.stale \/ collides]
        /\ pending' = OwnSession(peer.run.pending, pending)
        /\ route' = peer.run.route
        /\ stage' = peer.run.stage
        /\ pc' = peer.run.pc
        /\ records' = peer.run.records
        /\ idx' = peer.run.idx
        /\ updated' = peer.run.updated
        /\ skipped' = peer.run.skipped
        /\ outcome' = peer.run.outcome
        /\ result' = peer.run.result
        /\ before' = peer.run.before
        /\ runStart' = peer.run.runStart
        /\ log' = peer.run.log
        /\ UNCHANGED <<source, db, lastSync, headerVars, cellVars>>

\* Sheets of two stations and two units: a key listed twice, a second key,
\* or a record that is skipped
InitRace ==
    /\ source \in
           {[Stations |-> st, Units |-> un, Earnings |-> <<>>] :
              st \in {s \in SeqsOfLen(StationRows, 2) :
                         /\ s[1].station_code_h = Str(tAB)
                         /\ s[2].station_code_h \in {Str(<<>>), Str(tLower)}},
              un \in {u \in SeqsOfLen(UnitRows, 2) :
                         /\ u[1].unit_no_h = Str(tU1)
                         /\ u[1].station = Str(tAB)
                         /\ u[2].unit_no_h \in {Str(tU1pad), Str(tBlank)}}}
    /\ db = EmptyDb
    /\ pending = EmptySession
    /\ route = "all"
    /\ stage = 1
    /\ pc = "idle"
    /\ records = <<>>
    /\ idx = 0
    /\ updated = 0
    /\ skipped = 0
    /\ outcome = <<>>
    /\ result = NoResult
    /\ before = EmptyDb
    /\ runStart = EmptyDb
    /\ lastSync = [tb \in TabNames |-> NoSync]
    /\ log = <<>>
    /\ peer = NoPeer
    /\ HeadersIdle
    /\ CellsIdle

\* Each request runs sync_all once; a stale Session does not flush
NextRace ==
    \/ BeginSync("all")
    \/ GetGoogleSheet
    \/ GetGoogleSheetFails
    \/ SyncRow /\ (peer.mine =>
                      MapRow(CurTab, records[idx + 1]).kind # "entity")
    \/ MergeFails
    \/ Commit /\ ~peer.mine
    \/ CommitFails
    \/ Continue
    \/ Switch

SpecRace == InitRace /\ [][NextRace]_vars

----------------------------------------------------------------------------
(* Syncs of a sheet that loses rows between them                           *)

\* The sheet is edited by its owners while no request runs: the last row of
\* a tab is deleted, and the next fetch of the tab no longer returns it
DeleteSheetRow(tab) ==
    /\ pc = "idle"
    /\ source[tab] # <<>>
    /\ source' = [source EXCEPT ![tab] = SubSeq(@, 1, Len(@) - 1)]
    /\ lastSync' = [lastSync EXCEPT ![tab] = NoSync]
    /\ UNCHANGED <<db, pending, route, stage, pc, records, idx, updated,
                   skipped, outcome, result, before, runStart, log>>
    /\ UNCHANGED <<headerVars, cellVars, peer>>

\* A sheet with Stations and Units rows, an empty store
InitEdits ==
    /\ Init
    /\ source.Earnings = <<>>

NextEdits ==
    \/ \E r \in {"Stations", "Units"} : BeginSync(r)
    \/ GetGoogleSheet
    \/ GetGoogleSheetFails
    \/ SyncRow
    \/ MergeFails
    \/ Commit
    \/ CommitFails
    \/ Continue
    \/ Respond
    \/ \E tab \in {"Stations", "Units"} : DeleteSheetRow(tab)

SpecEdits == InitEdits /\ [][NextEdits]_vars

----------------------------------------------------------------------------
(* Properties                                                              *)

Range(f) == {f[i] : i \in DOMAIN f}

\* The running tab sync has returned to its caller
TabSyncReturned == pc = "returned"

\* Record i of the running tab sync is the last one mapped to its key
LastForKey(tab, recs, i) ==
    \A j \in (i + 1)..Len(recs) :
        MapRow(tab, recs[j]).kind = "entity"
            => MapRow(tab, recs[j]).key # MapRow(tab, recs[i]).key

\* Keys of the records of the running tab sync that were merged
MergedKeys ==
    {MapRow(CurTab, records[i]).key :
        i \in {j \in 1..Len(outcome) : outcome[j] = "merge"}}

\* C1: for each of the three tabs, a sync that follows a completed sync of
\* the same tab, with the source unchanged and no edit of the table in
\* between, leaves the table as the first sync left it (same rows, same
\* field values).
C1_SyncTwiceSameTable ==
    (TabSyncReturned /\ lastSync[CurTab].has)
        => db[CurTab] = lastSync[CurTab].tbl

\* C2: in every execution of sync_all, every fetch, merge and commit of
\* Stations comes before anything of Units, which starts only after the
\* Stations commit; likewise Units before Earnings.
C2_StageOrder ==
    route = "all" =>
        \A i \in DOMAIN log :
            /\ log[i].tab = "Units" =>
                  /\ \E j \in 1..(i - 1) : log[j] = Event("commit", "Stations")
                  /\ \A j \in (i + 1)..Len(log) : log[j].tab # "Stations"
            /\ log[i].tab = "Earnings" =>
                  /\ \E j \in 1..(i - 1) : log[j] = Event("commit", "Units")
                  /\ \A j \in (i + 1)..Len(log) :
                         log[j].tab \notin {"Stations", "Units"}

\* C2 witness: a sync_all that completed after merging a Station and a Unit
C2_Witness ==
    /\ route = "all"
    /\ pc = "done"
    /\ Event("merge", "Stations") \in Range(log)
    /\ Event("merge", "Units") \in Range(log)

\* C3: when a stage of sync_all raises, nothing of the request follows the
\* failure, no later stage was started, the caller gets that failure, and
\* the tables of the stages committed before it hold what their commits
\* left.
C3_FailFast ==
    route = "all" =>
        \A i \in DOMAIN log :
            log[i].ev = "raise" =>
                /\ i = Len(log)
                /\ pc = "failed"
                /\ result.status = "error"
                /\ result.tab = log[i].tab
                /\ log[i].tab = CurTab
                /\ \A j \in DOMAIN log :
                       log[j].tab \in {Stages(route)[k] : k \in 1..stage}
                /\ \A k \in 1..(stage - 1) :
                       /\ lastSync[Stages(route)[k]].has
                       /\ db[Stages(route)[k]] = lastSync[Stages(route)[k]].tbl

\* C3 witness: sync_all failed in its second stage after the first stage
\* committed new rows
C3_Witness ==
    /\ route = "all"
    /\ pc = "failed"
    /\ stage = 2
    /\ db.Stations # runStart.Stations

\* C4: while a tab sync runs, and when it has failed (fetch, row or commit),
\* the committed tables are what they were when it was called: rows reach
\* the committed table only through the one commit after the loop.
C4_NoPartialCommit ==
    pc \in {"fetch", "rows", "failed"} => db = before

\* C4 witness: a tab sync failed on a row after an earlier row was merged
C4_Witness ==
    /\ pc = "failed"
    /\ result.kind = "row"
    /\ updated > 0
    /\ pending # EmptySession

\* C5: a tab sync fails only on a fetch failure or a storage failure, never
\* because of the cells of a row.
C5_RowsNeverFail ==
    result.status = "error" => result.kind \in {"fetch", "storage"}

\* A cell that is missing or empty
MissingOrEmpty(c) == c.t = "none" \/ (c.t = "str" /\ c.s = <<>>)

\* The required field of a record is missing or empty under both spellings
RequiredMissing(tab, row) ==
    IF tab = "Stations"
    THEN \/ MissingOrEmpty(row.station_code_h) /\ MissingOrEmpty(row.station_code_l)
         \/ MissingOrEmpty(row.station_name_h) /\ MissingOrEmpty(row.station_name_l)
    ELSE MissingOrEmpty(row.unit_no_h) /\ MissingOrEmpty(row.unit_no_l)

\* C6: when a tab sync has completed, updated + skipped is the number of
\* rows fetched, a row was skipped exactly when its required field is
\* missing or empty, and skipped rows added no key to the table.
C6_CountsAndSkips ==
    TabSyncReturned =>
        /\ updated + skipped = Len(records)
        /\ \A i \in 1..Len(records) :
               (outcome[i] = "skip") <=> RequiredMissing(CurTab, records[i])
        /\ CurTab # "Earnings" =>
               DOMAIN db[CurTab] = DOMAIN before[CurTab] \cup MergedKeys

\* The rows of the Earnings table without their ids
EarningValues(tbl, ids) ==
    {[unit_no |-> tbl[e].unit_no, station_code |-> tbl[e].station_code] :
        e \in ids}

\* C7: after the commit of a tab sync, the row stored under the key of a
\* merged entity holds the mapped value in every column (the value of the
\* last record of that key), whatever the row held before, a manual update
\* included; the keys of the table are the old keys and the merged ones, so
\* a new key makes exactly one new row; each merged Earning is a new row
\* with the mapped values.
C7_MergeOverwrites ==
    TabSyncReturned =>
        IF CurTab = "Earnings"
        THEN LET new == DOMAIN db.Earnings \ DOMAIN before.Earnings
             IN  /\ Cardinality(new) = updated
                 /\ EarningValues(db.Earnings, new) =
                        {[unit_no |-> MapEarning(records[i]).attrs.unit_no,
                          station_code |->
                              MapEarning(records[i]).attrs.station_code] :
                            i \in {j \in 1..Len(records) : outcome[j] = "merge"}}
        ELSE /\ DOMAIN db[CurTab] = DOMAIN before[CurTab] \cup MergedKeys
             /\ \A i \in 1..Len(records) :
                    (outcome[i] = "merge" /\ LastForKey(CurTab, records, i)) =>
                        LET m == MapRow(CurTab, records[i])
                        IN  db[CurTab][m.key] =
                                IF CurTab = "Units" THEN m.attrs @@ UnitDefaults
                                ELSE m.attrs

\* C7 witness: a Stations sync committed over a row that a manual update
\* had changed, and the row no longer holds the manual values
C7_Witness ==
    /\ TabSyncReturned
    /\ CurTab = "Stations"
    /\ \E k \in DOMAIN before.Stations :
           /\ k \in MergedKeys
           /\ before.Stations[k].station_name = tZ
           /\ before.Stations[k].division = Str(tZ)
           /\ db.Stations[k].station_name # tZ
           /\ db.Stations[k].division # Str(tZ)

\* C8: every stored Station has a non-empty station_code and station_name,
\* every stored Unit a non-empty unit_no, and a table holds one row per key.
C8_KeysNonEmptyUnique ==
    /\ \A k \in DOMAIN db.Stations :
           /\ db.Stations[k].station_code = k
           /\ db.Stations[k].station_code # <<>>
           /\ db.Stations[k].station_name # <<>>
    /\ \A k \in DOMAIN db.Units :
           /\ db.Units[k].unit_no = k
           /\ db.Units[k].unit_no # <<>>

\* Units record u names the Station that Stations record s is mapped to: the
\* trimmed "station" cell is the station's code
References(u, s) ==
    /\ MapStation(s).kind = "entity"
    /\ IsStr(u.station)
    /\ Strip(u.station.s) = MapStation(s).key

\* C9: after a completed sync_all, every Unit whose (last) record names a
\* Station of the source that was not stored before the run has that
\* station's code as its station_code, and the Station is stored.
C9_UnitsResolve ==
    (route = "all" /\ pc = "done") =>
        \A i \in 1..Len(source.Units) : \A n \in 1..Len(source.Stations) :
            LET u == source.Units[i]
                s == source.Stations[n]
            IN  ( /\ MapUnit(u).kind = "entity"
                  /\ LastForKey("Units", source.Units, i)
                  /\ References(u, s)
                  /\ MapStation(s).key \notin DOMAIN runStart.Stations )
                =>  /\ MapUnit(u).key \in DOMAIN db.Units
                    /\ db.Units[MapUnit(u).key].station_code =
                           Str(MapStation(s).key)
                    /\ MapStation(s).key \in DOMAIN db.Stations

\* Number of headers up to position i whose trimmed text is that of header i
Occurrence(i) ==
    Cardinality({j \in 1..i : Strip(headers[j]) = Strip(headers[i])})

\* C10: the header list built has no two equal entries; the first occurrence
\* of a header keeps its text and the k-th occurrence gets _k appended.
C10_HeadersUnique ==
    hpos = Len(headers) =>
        /\ \A i, j \in 1..Len(clean_headers) :
               i # j => clean_headers[i] # clean_headers[j]
        /\ \A i \in 1..Len(clean_headers) :
               clean_headers[i] =
                   IF Occurrence(i) = 1 THEN Strip(headers[i])
                   ELSE Renamed(Strip(headers[i]), Occurrence(i))

\* Spellings of the "no value" tokens, and the blanks around them
SentinelSpellings ==
    {<<>>, <<"N", "/", "A">>, <<"#", "N", "/", "A">>, <<"n", "A">>,
     <<"N", "o", "n", "e">>}
Pads == {<<>>, <<" ">>, <<" ", " ">>}

SentinelInput ==
    \/ input = NoneCell
    \/ /\ IsStr(input)
       /\ \E l \in Pads, r \in Pads, tk \in SentinelSpellings :
              input.s = l \o tk \o r

\* C19: for a sentinel input ("", "N/A", "#N/A", "na", "none" in any letter
\* case and with blanks around it, or None) normalize_number returns None,
\* safe_int returns 0 and safe_float returns 0.0.
C19_SentinelsGiveDefaults ==
    SentinelInput =>
        /\ answer.fn = "normalize_number" => answer.out = NoneCell
        /\ answer.fn = "safe_int" => answer.out = 0
        /\ answer.fn = "safe_float" => answer.out = Flt(0, <<>>)

\* C19 witness: normalize_number was applied to " #N/A "
C19_Witness ==
    /\ input = Str(<<" ", "#", "N", "/", "A", " ">>)
    /\ answer.fn = "normalize_number"

\* C20: for a text that contains "to" or "upto" and an integer,
\* normalize_number returns the last embedded integer: "50" for
\* "05to50Lakhs" and "1" for "upto01Lakhs".
C20_RangeGivesLastInteger ==
    LET ranged == /\ IsStr(input)
                  /\ Contains(input.s, <<"t", "o">>)
                  /\ Findall(input.s) # <<>>
        last   == Findall(input.s)[Len(Findall(input.s))]
    IN  answer.fn = "normalize_number" =>
            /\ ranged =>
                   /\ IsStr(answer.out)
                   /\ answer.out.s # <<>>
                   /\ \A i \in DOMAIN answer.out.s : answer.out.s[i] \in Digit
                   /\ ToNat(answer.out.s) = ToNat(last)
            /\ input = Str(<<"0", "5", "t", "o",
                             "5", "0", "L", "a", "k", "h", "s">>) =>
                   answer.out = Str(<<"5", "0">>)
            /\ input = Str(<<"u", "p", "t", "o",
                             "0", "1", "L", "a", "k", "h", "s">>) =>
                   answer.out = Str(<<"1">>)

\* C11: a fetch for a tab name that is not one of Stations, Units, Earnings
\* fails with the ValueError of the tab check, no call to the spreadsheet
\* service is made and storage is unchanged.
C11_UnknownTabFailsFirst ==
    tab_name \notin {"Stations", "Units", "Earnings"} =>
        /\ gpc \in {"check", "ValueError"}
        /\ remote = 0
        /\ db = EmptyDb

\* C11 witness: get_google_sheet has raised for an unknown tab name
C11_Witness ==
    /\ tab_name \notin {"Stations", "Units", "Earnings"}
    /\ gpc = "ValueError"

\* C12: what the caller gets from a sync_all that failed after a stage had
\* committed differs from everything it can get from a sync_all that failed
\* before any stage committed.
C12_FailureTellsStages ==
    (route = "all" /\ pc = "failed" /\ stage > 1) =>
        \A k \in ErrorKinds :
            HttpResponse(result) # HttpResponse(Error(k, "Stations"))

\* C13: a tab sync that completes returns the pair (updated_count,
\* skipped_count) of the run, and the response of sync_all carries the
\* results of its stages.
C13_SyncReturnsCounts ==
    /\ pc = "returned" =>
           SyncReturn(updated, skipped) =
               [updated_count |-> updated, skipped_count |-> skipped]
    /\ (pc = "done" /\ route = "all") =>
           "stages" \in DOMAIN HttpResponse(result)

\* The record has a unit number as the syncs read it
HasUnitNo(row) == Truthy(row.unit_no_h) \/ Truthy(row.unit_no_l)

\* C14: after a Units sync, every row with a unit number is stored, and its
\* station_code is the run of upper-case letters at the start of the trimmed
\* "station" cell when that run is 2 to 5 letters long, and absent otherwise.
C14_StationCodeToken ==
    (TabSyncReturned /\ CurTab = "Units") =>
        \A i \in 1..Len(records) :
            HasUnitNo(records[i]) =>
                LET cell == records[i].station
                    text == IF IsStr(cell) THEN Strip(cell.s) ELSE <<>>
                    tok  == SubSeq(text, 1, UpperRun(text))
                    code == IF Len(tok) >= 2 /\ Len(tok) <= 5 THEN Str(tok)
                            ELSE NoneCell
                    key  == MapUnit(records[i]).key
                IN  /\ key \in DOMAIN db.Units
                    /\ LastForKey("Units", records, i) =>
                           db.Units[key].station_code = code

\* The earning_id the i-th record of the running Earnings sync was stored
\* under
EarningIdOf(i) ==
    NextEarningId(before.Earnings)
        + Cardinality({j \in 1..i : outcome[j] = "merge"}) - 1

\* C15: the ua_case of every Earning stored by sync is parse_bool of the raw
\* "U/A CASE" cell of its row.
C15_UaCaseIsParseBool ==
    (TabSyncReturned /\ CurTab = "Earnings") =>
        \A i \in 1..Len(records) :
            outcome[i] = "merge" =>
                db.Earnings[EarningIdOf(i)].ua_case =
                    parse_bool(records[i].ua_case)

\* The largest integer embedded in a platform descriptor cell, 0 without one
MaxEmbedded(cell) ==
    CASE cell.t = "none" -> 0
      [] cell.t = "num"  -> cell.n
      [] cell.t = "str"  ->
           IF Findall(cell.s) = <<>> THEN 0
           ELSE Max({ToNat(Findall(cell.s)[k]) : k \in DOMAIN Findall(cell.s)})

\* C16: the platform_count of every Station stored by sync is the largest
\* integer embedded in the row's platform descriptor (the "platforms" cell,
\* or the "number of platforms" cell), 0 without one, and never negative.
C16_PlatformCountIsMax ==
    (TabSyncReturned /\ CurTab = "Stations") =>
        \A i \in 1..Len(records) :
            (outcome[i] = "merge" /\ LastForKey("Stations", records, i)) =>
                LET row    == records[i]
                    desc   == IF Truthy(row.platforms) THEN row.platforms
                              ELSE row.number_of_platforms
                    stored == db.Stations[MapStation(row).key]
                IN  /\ stored.platform_count = Num(MaxEmbedded(desc))
                    /\ stored.platform_count.n >= 0

\* An amount or gst cell that is missing or holds no number
NoAmount(cell) ==
    \/ cell = NoneCell
    \/ IsStr(cell) /\ (Findall(cell.s) = <<>> \/ Dots(cell.s) > 1)

\* C17: every stored Earning has a non-empty unit_no; in an Earnings sync a
\* row is merged exactly when it has a unit number, whatever its amount and
\* gst cells hold, and no row makes the sync fail; a missing or unparsable
\* amount or gst is stored as 0.0.
C17_EarningsKeepRows ==
    /\ \A e \in DOMAIN db.Earnings :
           db.Earnings[e].unit_no \notin {NoneCell, Str(<<>>)}
    /\ (CurTab = "Earnings" /\ pc \in {"rows", "returned"}) =>
           \A i \in 1..Len(outcome) :
               outcome[i] = "merge" <=> HasUnitNo(records[i])
    /\ (CurTab = "Earnings" /\ pc = "failed") => result.kind # "row"
    /\ (CurTab = "Earnings" /\ TabSyncReturned) =>
           \A i \in 1..Len(records) :
               outcome[i] = "merge" =>
                   /\ NoAmount(records[i].amount) =>
                          db.Earnings[EarningIdOf(i)].amount = Flt(0, <<>>)
                   /\ NoAmount(records[i].gst) =>
                          db.Earnings[EarningIdOf(i)].gst = Flt(0, <<>>)

\* C17 witness: an Earnings sync has stored a row whose amount cell is "N/A"
\* and whose gst cell is ".7."
C17_Witness ==
    /\ CurTab = "Earnings"
    /\ TabSyncReturned
    /\ \E i \in 1..Len(records) :
           /\ outcome[i] = "merge"
           /\ records[i].amount = Str(<<"N", "/", "A">>)
           /\ records[i].gst = Str(<<".", "7", ".">>)
           /\ EarningIdOf(i) \in DOMAIN db.Earnings

\* The station code of the delete_station that was served last
Deleted == log[1].tab

AfterDelete == Len(log) = 1 /\ log[1].ev = "delete_station"

\* Units and Earnings of `before` that depend on the deleted Station
DependentUnits ==
    {u \in DOMAIN before.Units : before.Units[u].station_code = Str(Deleted)}

DependentEarnings ==
    {e \in DOMAIN before.Earnings :
        \/ before.Earnings[e].station_code = Str(Deleted)
        \/ \E u \in DependentUnits : before.Earnings[e].unit_no = Str(u)}

\* C18: after delete_station(c), storage holds no Unit and no Earning whose
\* station_code is c and no Earning of a deleted Unit; the Station is gone;
\* every other Station, Unit and Earning is stored unchanged.
C18_DeleteCascades ==
    AfterDelete =>
        /\ Deleted \notin DOMAIN db.Stations
        /\ \A u \in DOMAIN db.Units : db.Units[u].station_code # Str(Deleted)
        /\ \A e \in DOMAIN db.Earnings :
               /\ db.Earnings[e].station_code # Str(Deleted)
               /\ \A u \in DependentUnits : db.Earnings[e].unit_no # Str(u)
        /\ DOMAIN db.Stations = DOMAIN before.Stations \ {Deleted}
        /\ DOMAIN db.Units = DOMAIN before.Units \ DependentUnits
        /\ DOMAIN db.Earnings = DOMAIN before.Earnings \ DependentEarnings
        /\ \A s \in DOMAIN db.Stations : db.Stations[s] = before.Stations[s]
        /\ \A u \in DOMAIN db.Units : db.Units[u] = before.Units[u]
        /\ \A e \in DOMAIN db.Earnings : db.Earnings[e] = before.Earnings[e]

\* C18 witness: the deleted Station had a Unit with an Earning booked under
\* another station, and an Earning that depends on neither is still stored
C18_Witness ==
    /\ AfterDelete
    /\ \E u \in DependentUnits : \E e \in DOMAIN before.Earnings :
           /\ before.Earnings[e].unit_no = Str(u)
           /\ before.Earnings[e].station_code # Str(Deleted)
    /\ DOMAIN db.Earnings # {}

----------------------------------------------------------------------------
(* The value parsers on texts: C21 to C24                                   *)

NonSentinelText == IsStr(input) /\ Lower(Strip(input.s)) \notin Sentinels

\* A range: a text with "to" in it, in any letter case, and an integer
RangeText ==
    /\ IsStr(input)
    /\ Contains(Lower(input.s), <<"t", "o">>)
    /\ Findall(input.s) # <<>>

DigitsAndDots == SelectSeq(input.s, LAMBDA c : c \in Digit \cup {"."})

NeverNegative ==
    IsStr(input) =>
        /\ answer.fn = "safe_int" => answer.out >= 0
        /\ answer.fn = "safe_float" => answer.out.whole >= 0

\* C21 as stated: for every non-sentinel text that is not a range,
\* normalize_number returns exactly the digit and dot characters of the input
\* in their original order, and safe_int and safe_float of a text are never
\* negative.
C21_AlwaysDigitText ==
    /\ (NonSentinelText /\ ~RangeText /\ answer.fn = "normalize_number") =>
           answer.out = Str(DigitsAndDots)
    /\ NeverNegative

\* C21: for every non-sentinel text that is not a range, normalize_number
\* returns the digit and dot characters of the input in their original
\* order, or None when the input has none of them; every other character, a
\* minus sign included, is removed, and safe_int and safe_float of a text are
\* never negative.
C21_DigitTextOrNone ==
    /\ (NonSentinelText /\ ~RangeText /\ answer.fn = "normalize_number") =>
           /\ answer.out =
                  IF DigitsAndDots = <<>> THEN NoneCell ELSE Str(DigitsAndDots)
           /\ input = Str(<<Rupee, "1", ",", "2", "3", ",", "4", "5", "6">>) =>
                  answer.out = Str(<<"1", "2", "3", "4", "5", "6">>)
           /\ input = Str(<<"3", ",", "5", "0", ",", "0", "0", "0", "+">>) =>
                  answer.out = Str(<<"3", "5", "0", "0", "0", "0">>)
    /\ NeverNegative

\* C21 witness: normalize_number was applied to a text with a minus sign, a
\* currency glyph, a comma and a plus sign and returned its digits
C21_Witness ==
    /\ input = Str(<<"-", "7", Rupee, "5", ",", "4", "+">>)
    /\ answer = Answer("normalize_number", Str(<<"7", "5", "4">>))

\* The normalized text is a number: digits with at most one point
NumberText(x) ==
    /\ Len(Split(x, ".")) <= 2
    /\ \E i \in DOMAIN x : x[i] \in Digit
    /\ \A i \in DOMAIN x : x[i] \in Digit \cup {"."}

\* C22: safe_int returns an integer for every input: the number of the
\* normalized text truncated toward zero ("12.7" gives 12) when that text is
\* a number, the default 0 when there is no text or it is no number.
C22_SafeIntTruncates ==
    answer.fn = "safe_int" =>
        LET n == normalize_number(input)
        IN  /\ answer.out \in Int
            /\ IF n # NoneCell /\ NumberText(n.s)
               THEN answer.out = ToNat(Split(n.s, ".")[1])
               ELSE answer.out = 0
            /\ input = Str(<<"1", "2", ".", "7">>) => answer.out = 12

\* C22 witness: safe_int truncated a text with digits after the point
C22_Witness ==
    /\ input = Str(<<"0", "5", ".", "-", "7">>)
    /\ answer = Answer("safe_int", 5)

ValidDate(x) ==
    /\ x.y >= 1
    /\ x.m \in 1..12
    /\ x.d \in 1..DaysIn(x.y, x.m)

\* C23: parse_date returns a date of the calendar or None for every input:
\* None for None and for the sentinel texts; otherwise the result of the first
\* of the formats Y-M-D, D-M-Y, D/M/Y, Y/M/D that the trimmed text matches,
\* and None when it matches none ("2024-03-15" and "15-03-2024" give
\* 2024-03-15, "garbage" gives None).
C23_ParseDateFirstFormat ==
    answer.fn = "parse_date" =>
        LET s == IF input = NoneCell THEN <<>> ELSE Strip(PyStr(input))
            hits == {i \in DOMAIN DateFormats :
                         Strptime(s, DateFormats[i]) # NoneCell}
        IN  /\ answer.out # NoneCell => ValidDate(answer.out)
            /\ (input = NoneCell \/ Lower(s) \in DateSentinels) =>
                   answer.out = NoneCell
            /\ hits = {} => answer.out = NoneCell
            /\ hits # {} =>
                   answer.out =
                       Strptime(s, DateFormats[CHOOSE i \in hits :
                                                   \A j \in hits : i <= j])
            /\ input = Str(<<"2","0","2","4","-","0","3","-","1","5">>) =>
                   answer.out = Date(2024, 3, 15)
            /\ input = Str(<<"1","5","-","0","3","-","2","0","2","4">>) =>
                   answer.out = Date(2024, 3, 15)
            /\ input = Str(<<"g", "a", "r", "b", "a", "g", "e">>) =>
                   answer.out = NoneCell

\* C23 witness: parse_date read a day-first text with slashes
C23_Witness ==
    /\ input = Str(<<"2","9","/","2","/","2","0","2","4">>)
    /\ answer = Answer("parse_date", Date(2024, 2, 29))

BoolTokens ==
    {<<"t", "r", "u", "e">>, <<"1">>, <<"y", "e", "s">>, <<"y">>,
     <<"a", "v", "a", "i", "l", "a", "b", "l", "e">>,
     <<"o", "p", "e", "r", "a", "t", "i", "o", "n", "a", "l">>}

\* C24: parse_bool returns true exactly when the trimmed, lower-cased text of
\* the input is one of true, 1, yes, y, available, operational, and false
\* for everything else, None and the empty text included.
C24_ParseBoolTokens ==
    answer.fn = "parse_bool" =>
        /\ answer.out \in BOOLEAN
        /\ answer.out =
               /\ input # NoneCell
               /\ Lower(Strip(PyStr(input))) \in BoolTokens
        /\ input = Str(<<"Y", "e", "s">>) => answer.out = TRUE
        /\ input = Str(<<"o","p","e","r","a","t","i","o","n","a","l">>) =>
               answer.out = TRUE
        /\ input \in {NoneCell, Str(<<>>)} => answer.out = FALSE

\* C24 witness: parse_bool took a capitalised token for true
C24_Witness ==
    /\ input = Str(<<"A", "v", "a", "i", "l", "a", "b", "l", "e">>)
    /\ answer = Answer("parse_bool", TRUE)

----------------------------------------------------------------------------
(* The tables around a tab sync: C25, C26, C28, C29                        *)

\* C25: when an Earnings sync has committed, every Earning stored before the
\* call is still stored and unchanged, every non-skipped record has made one
\* new row under an id that was not in use, and the table has grown by
\* updated_count rows.
C25_EarningsOnlyGrow ==
    (TabSyncReturned /\ CurTab = "Earnings") =>
        LET old == DOMAIN before.Earnings
            new == DOMAIN db.Earnings \ old
        IN  /\ \A e \in old :
                   e \in DOMAIN db.Earnings
                       /\ db.Earnings[e] = before.Earnings[e]
            /\ updated = Len(records) - skipped
            /\ Cardinality(new) = updated
            /\ Cardinality(DOMAIN db.Earnings) = Cardinality(old) + updated
            /\ \A e \in new : db.Earnings[e].earning_id = e

\* C25 witness: an Earnings sync with a merged record committed into a table
\* that already held rows
C25_Witness ==
    /\ TabSyncReturned
    /\ CurTab = "Earnings"
    /\ updated >= 1
    /\ before.Earnings # EmptyTable

OtherTabs == TabNames \ {CurTab}

Merged == {i \in 1..Len(outcome) : outcome[i] = "merge"}

\* Two merged records of the running tab sync with the same primary key
SameKey(i, j) ==
    /\ i \in Merged
    /\ j \in Merged
    /\ i < j
    /\ MapRow(CurTab, records[i]).key = MapRow(CurTab, records[j]).key

UnitCell(row) == Or(row.unit_no_h, row.unit_no_l)

\* C29: when the Earnings stage of a sync_all has committed, every merged
\* Earnings record whose raw unit-number cell is also the cell of a merged
\* Units record of the sheet is stored with the unit_no that Unit is stored
\* under, and that Unit is in the table.
C29_EarningUnitResolves ==
    (TabSyncReturned /\ route = "all" /\ CurTab = "Earnings") =>
        \A i \in Merged :
            \A j \in 1..Len(source.Units) :
                LET u == source.Units[j]
                IN  ( /\ MapUnit(u).kind = "entity"
                      /\ UnitCell(u) = UnitCell(records[i]) )
                    =>  /\ MapUnit(u).key \in DOMAIN db.Units
                        /\ db.Earnings[EarningIdOf(i)].unit_no =
                               Str(MapUnit(u).key)

----------------------------------------------------------------------------
(* Requests by key: C30                                                    *)

AfterRequest == Len(log) = 1 /\ log[1].ev \in {"get", "update", "delete"}

\* C30: a get, update or delete of a Station, Unit or Earning ends with the
\* 404 of "not found" exactly when its key was not stored, and then the
\* three tables are as they were.
C30_MissingKeyNotFound ==
    AfterRequest =>
        LET stored == log[1].key \in DOMAIN before[log[1].tab]
        IN  /\ log[1].code = IF stored THEN 200 ELSE 404
            /\ ~stored => db = before

\* C30 witness: an update named a key that another table holds but its own
\* table does not, and was answered 404
C30_Witness ==
    /\ AfterRequest
    /\ log[1].ev = "update" /\ log[1].tab = "Earnings"
    /\ log[1].key = 2 /\ log[1].code = 404
    /\ DOMAIN db.Earnings = {1}
    /\ db.Stations # EmptyTable

----------------------------------------------------------------------------
(* Two requests at the same time: C27                                      *)

\* Both requests have left the handler, with the response or with an error
BothEnded ==
    /\ pc \in {"done", "failed"}
    /\ peer.run.pc \in {"done", "failed"}

\* The table one sync_all that completes leaves from the sheet, the tables
\* being empty before: per key the values of its last mapped record
SingleRun(tab) ==
    LET recs == source[tab]
        last == {i \in 1..Len(recs) :
                    /\ MapRow(tab, recs[i]).kind = "entity"
                    /\ LastForKey(tab, recs, i)}
    IN  [k \in {MapRow(tab, recs[i]).key : i \in last} |->
            LET m == MapRow(tab, recs[CHOOSE i \in last :
                                         MapRow(tab, recs[i]).key = k])
            IN  IF tab = "Units" THEN m.attrs @@ UnitDefaults ELSE m.attrs]

\* The stations and units tables are those of one completed sync_all (the
\* tables are keyed: a primary key has one row)
Converged ==
    /\ db.Stations = SingleRun("Stations")
    /\ db.Units = SingleRun("Units")

\* C27 as stated: once two interleaved sync_all executions on one unchanged
\* sheet have both ended, each by completing or by failing, the stations
\* and units tables are those of one completed execution.
C27_EndedRunsConverge == BothEnded => Converged

\* C27: once two interleaved sync_all executions on one unchanged sheet
\* have both ended and at least one of them completed, the stations and
\* units tables are those of one completed execution.
C27_CompletedRunConverges ==
    (BothEnded /\ (pc = "done" \/ peer.run.pc = "done")) => Converged

\* C27 witness: one request completed, the other one staged the INSERT of a
\* key that the first committed meanwhile and failed on its flush
C27_Witness ==
    /\ BothEnded
    /\ pc = "failed" /\ peer.mine /\ result.kind = "storage"
    /\ peer.run.pc = "done"
    /\ db.Units # EmptyTable

====
